---- MODULE Spec2Model ----
(***************************************************************************)
(* The training / evaluation control loop of FGWS/main.py: the mode        *)
(* switch of __main__, the epoch loop, run_epoch, eval_model, save_model,  *)
(* the promotion of the best checkpoint and test_model.                    *)
(*                                                                         *)
(* Abstractions.  A text is an example id, its label is Label(id).  The    *)
(* model parameters are the number of optimizer steps applied so far (two  *)
(* parameter sets are equal iff the same number of updates produced        *)
(* them).  A loss is finite (a rational num/den), +infinity or NaN; float  *)
(* rounding is not modelled.  A gradient is its norm.                      *)
(***************************************************************************)
EXTENDS Integers, Sequences, FiniteSets, TLC

(* ------------------------------ bounds -------------------------------- *)
MaxEpoch == 2        \* epochs of a run
MaxTrain == 4        \* examples of the training split
MaxEval == 3         \* examples of the validation and of the test split
MaxBatch == 2        \* configured batch sizes
MaxLoss == 1         \* finite per-batch validation losses
MaxGrad == 5         \* gradient norms
MaxClip == 1         \* configured clip_norm
MaxRecordEpoch == 4  \* epochs of a run that follows the best-epoch record

NumClasses == 2      \* classes of the classifier

VARIABLES
    config,        \* Config(): the options that drive the control loop
    data_module,   \* DataModule: the three splits, texts and labels
    pc,            \* position of the single thread of control
    epoch,         \* loop variable of `for epoch in range(1, num_epoch + 1)`
    batch,         \* number of iterations of the current batch loop done
    num_batches,   \* num_batches of the pass in progress
    model,         \* live model parameters
    optimizer,     \* optimizer state: steps taken
    scheduler,     \* <<>> (None) or <<[total, steps]>>
    best_epoch,    \* the global best_epoch = (epoch, loss)
    predictions,   \* local predictions list of eval_model / test_model
    total_loss,    \* local total_loss list of eval_model
    seen,          \* the (sentences, labels) slices of the pass in progress
    last_step,     \* the training batch just processed: gradient and calls
    epoch_dirs,    \* checkpoints/epoch_<k>/model.pth, by k
    e_best,        \* checkpoints/e_best/model.pth: <<>> or <<checkpoint>>
    save_log,      \* the torch.save calls completed, in order
    train_writer,  \* steps of the Train/batch_loss scalars
    val_writer,    \* the Val/loss scalars with the record logged beside them
    logger         \* the records logged by test_model and the exit message

vars == <<config, data_module, pc, epoch, batch, num_batches, model, optimizer,
          scheduler, best_epoch, predictions, total_loss, seen, last_step,
          epoch_dirs, e_best, save_log, train_writer, val_writer, logger>>

(* ------------------------------ helpers ------------------------------- *)
Min(a, b) == IF a < b THEN a ELSE b

RECURSIVE SumSeq(_)
SumSeq(s) == IF s = <<>> THEN 0 ELSE Head(s) + SumSeq(Tail(s))

RECURSIVE Flatten(_)
Flatten(ss) == IF ss = <<>> THEN <<>> ELSE Head(ss) \o Flatten(Tail(ss))

Range(s) == {s[i] : i \in 1..Len(s)}

\* The gold label of an example.
Label(id) == id % NumClasses

\* The examples of a split of n examples whose ids start after base.
Texts(base, n) == [i \in 1..n |-> base + i]
Pols(texts) == [i \in 1..Len(texts) |-> Label(texts[i])]

(* ------------------------------ losses -------------------------------- *)
Inf == [k |-> "inf", num |-> 0, den |-> 1]
NaN == [k |-> "nan", num |-> 0, den |-> 1]
Fin(n, d) == [k |-> "fin", num |-> n, den |-> d]

\* Python's float `<`: false whenever a NaN is involved.
LossLess(a, b) ==
    CASE a.k = "nan" \/ b.k = "nan" -> FALSE
      [] a.k = "inf" -> FALSE
      [] b.k = "inf" -> TRUE
      [] OTHER -> a.num * b.den < b.num * a.den

\* Variant: the mean weighs every batch loss by the size of its batch.
NpMeanWeighted(losses) ==
    CASE losses = <<>> -> NaN
      [] \E i \in 1..Len(losses) : losses[i].k = "nan" -> NaN
      [] \E i \in 1..Len(losses) : losses[i].k = "inf" -> Inf
      [] OTHER -> Fin(SumSeq([i \in 1..Len(losses) |->
                                losses[i].num * Len(seen[i].sentences)]),
                      losses[1].den *
                        SumSeq([i \in 1..Len(losses) |-> Len(seen[i].sentences)]))

\* np.mean of a list of non-negative losses: NaN for the empty list.
NpMean(losses) ==
    CASE losses = <<>> -> NaN
      [] \E i \in 1..Len(losses) : losses[i].k = "nan" -> NaN
      [] \E i \in 1..Len(losses) : losses[i].k = "inf" -> Inf
      [] OTHER -> Fin(SumSeq([i \in 1..Len(losses) |-> losses[i].num]),
                      losses[1].den * Len(losses))

\* What criterion(outputs, labels).item() can return for a batch: finite
\* losses on a grid 1/den, +infinity on overflow, NaN.
FiniteLosses(lo, hi, den) == {Fin(n, den) : n \in lo..hi}
BatchLosses == FiniteLosses(0, MaxLoss, 1) \cup {NaN}

(* ------------------------------ batching ------------------------------ *)
\* int(math.ceil(n / b))
CeilDiv(n, b) == IF n % b = 0 THEN n \div b ELSE (n \div b) + 1

\* Variant: floor for ceil, the last partial batch is dropped.
NumBatchesFloor(split, b) == Len(split) \div b

NumBatches(split, b) == CeilDiv(Len(split), b)

\* Python's split[i * b : (i + 1) * b], i counted from 0.
Slice(split, i, b) == SubSeq(split, i * b + 1, Min((i + 1) * b, Len(split)))

\* utils.shuffle_lists: one permutation applied to both lists.
Perms(n) == {p \in [1..n -> 1..n] : \A i, j \in 1..n : p[i] = p[j] => i = j}
Permute(s, p) == [i \in 1..Len(s) |-> s[p[i]]]

\* utils.inference: the class the model predicts for one sentence.
Predict(params, sent) == (params + sent) % NumClasses
Inference(params, sentences) ==
    [i \in 1..Len(sentences) |-> Predict(params, sentences[i])]

\* clip_grad_norm_(parameters, max_norm): the gradient norm after the call.
ClipGradNorm(g, max_norm) == IF g > max_norm THEN max_norm ELSE g

(* ------------------------------ checkpoints --------------------------- *)
Checkpoint(e, m, o) ==
    [epoch |-> e, model_state_dict |-> m, optimizer_state_dict |-> o]

\* A checkpoint left under e_best by an earlier run on the same base path.
StaleCheckpoint == Checkpoint(0, 0 - 1, 0 - 1)

\* The file at config.load_model_path.
LoadPathCheckpoint == Checkpoint(1, 1, 1)

NoStep == [epoch |-> 0, batch |-> 0, grad |-> 0, applied |-> 0, ops |-> <<>>]

(* ------------------------------ Init ---------------------------------- *)
Backbones == {[use_BERT |-> TRUE, model_type |-> "cnn"],
              [use_BERT |-> FALSE, model_type |-> "cnn"],
              [use_BERT |-> FALSE, model_type |-> "lstm"]}

Modes == {"train", "test", "attack"}

Configs(modes, clips, epochs, trainBatch, valBatch, testBatch, onVal) ==
    {[mode |-> m, use_BERT |-> bb.use_BERT, model_type |-> bb.model_type,
      clip_norm |-> c, num_epoch |-> n, batch_size_train |-> bt,
      batch_size_val |-> bv, batch_size_test |-> bs, test_on_val |-> tv] :
        m \in modes, bb \in Backbones, c \in clips, n \in epochs,
        bt \in trainBatch, bv \in valBatch, bs \in testBatch, tv \in onVal}

InitWith(cfgs, trainSizes, valSizes, testSizes, stale) ==
    /\ config \in cfgs
    /\ \E nt \in trainSizes, nv \in valSizes, ns \in testSizes :
         data_module =
           [train_texts |-> Texts(0, nt), train_pols |-> Pols(Texts(0, nt)),
            val_texts |-> Texts(10, nv), val_pols |-> Pols(Texts(10, nv)),
            test_texts |-> Texts(20, ns), test_pols |-> Pols(Texts(20, ns))]
    /\ pc = "start"
    /\ epoch = 0
    /\ batch = 0
    /\ num_batches = 0
    /\ model = 0
    /\ optimizer = 0
    /\ scheduler = <<>>
    /\ best_epoch = <<0, Inf>>
    /\ predictions = <<>>
    /\ total_loss = <<>>
    /\ seen = <<>>
    /\ last_step = NoStep
    /\ epoch_dirs = <<>>
    /\ e_best \in stale
    /\ save_log = <<>>
    /\ train_writer = <<>>
    /\ val_writer = <<>>
    /\ logger = <<>>

Stale == {<<>>, <<StaleCheckpoint>>}

Init ==
    InitWith(Configs(Modes, {1}, 1..MaxEpoch, 1..MaxBatch, {1}, {1}, {FALSE}),
             0..MaxTrain, {1}, {1}, {<<>>})

(* ------------------------------ __main__ ------------------------------ *)
\* Variant: the schedule is configured for the examples of the run, as if
\* every batch held one example.
TotalStepsExamples == config.num_epoch * Len(data_module.train_texts)

\* total_steps = num_epoch * int(math.ceil(len(train_texts) / batch_size_train))
TotalSteps ==
    config.num_epoch * NumBatches(data_module.train_texts, config.batch_size_train)

\* mode == "train": build the model, the optimizer and (transformer) the
\* warmup schedule; best_epoch = (0, np.inf).
StartTrain ==
    /\ pc = "start"
    /\ config.mode = "train"
    /\ best_epoch' = <<0, Inf>>
    /\ model' = 0
    /\ optimizer' = 0
    /\ scheduler' =
         IF config.use_BERT
         THEN <<[total |-> TotalSteps, steps |-> 0]>>
         ELSE <<>>
    /\ epoch' = 0
    /\ pc' = "epoch_loop"
    /\ UNCHANGED <<config, data_module, batch, num_batches, predictions,
                   total_loss, seen, last_step, epoch_dirs, e_best, save_log,
                   train_writer, val_writer, logger>>

\* Variant: every mode other than train is taken for test (else for elif).
StartTestUnlessTrain ==
    /\ pc = "start"
    /\ config.mode # "train"
    /\ model' = LoadPathCheckpoint.model_state_dict
    /\ pc' = "test_begin"
    /\ UNCHANGED <<config, data_module, epoch, batch, num_batches, optimizer,
                   scheduler, best_epoch, predictions, total_loss, seen,
                   last_step, epoch_dirs, e_best, save_log, train_writer,
                   val_writer, logger>>

\* mode == "test": build the model and load config.load_model_path.
StartTest ==
    /\ pc = "start"
    /\ config.mode = "test"
    /\ model' = LoadPathCheckpoint.model_state_dict
    /\ pc' = "test_begin"
    /\ UNCHANGED <<config, data_module, epoch, batch, num_batches, optimizer,
                   scheduler, best_epoch, predictions, total_loss, seen,
                   last_step, epoch_dirs, e_best, save_log, train_writer,
                   val_writer, logger>>

LogRecord(kind, index, sentence, label, prediction) ==
    [kind |-> kind, index |-> index, sentence |-> sentence, label |-> label,
     prediction |-> prediction]

\* any other mode: log "Incorrect mode" and exit().
ExitIncorrectMode ==
    /\ pc = "start"
    /\ config.mode \notin {"train", "test"}
    /\ logger' = Append(logger, LogRecord("incorrect_mode", 0, 0, 0, 0))
    /\ pc' = "exited"
    /\ UNCHANGED <<config, data_module, epoch, batch, num_batches, model,
                   optimizer, scheduler, best_epoch, predictions, total_loss,
                   seen, last_step, epoch_dirs, e_best, save_log, train_writer,
                   val_writer>>

(* ------------------------------ run_epoch ----------------------------- *)
\* The next iteration of the epoch loop enters run_epoch: num_batches is
\* computed and the training split is shuffled.
BeginEpoch ==
    /\ pc = "epoch_loop"
    /\ epoch < config.num_epoch
    /\ epoch' = epoch + 1
    /\ num_batches' = NumBatches(data_module.train_texts, config.batch_size_train)
    /\ \E p \in Perms(Len(data_module.train_texts)) :
         data_module' =
           [data_module EXCEPT !.train_texts = Permute(data_module.train_texts, p),
                               !.train_pols = Permute(data_module.train_pols, p)]
    /\ batch' = 0
    /\ seen' = <<>>
    /\ pc' = "train"
    /\ UNCHANGED <<config, model, optimizer, scheduler, best_epoch, predictions,
                   total_loss, last_step, epoch_dirs, e_best, save_log,
                   train_writer, val_writer, logger>>

\* The gradient norm the optimizer step is taken with, g being the norm
\* after loss.backward().
AppliedGrad(g) ==
    IF config.use_BERT
    THEN IF config.clip_norm > 0 THEN ClipGradNorm(g, config.clip_norm) ELSE g
    ELSE g

\* Variant: the scheduler is stepped before the optimizer, for every backbone.
BatchOpsSchedulerFirst ==
    <<"zero_grad", "forward", "criterion", "backward", "scheduler_step",
      "optimizer_step">>

\* The calls of one training batch, in program order.
BatchOps ==
    IF config.use_BERT
    THEN <<"zero_grad", "forward", "outputs_loss", "backward">>
         \o (IF config.clip_norm > 0 THEN <<"clip_grad_norm">> ELSE <<>>)
         \o <<"optimizer_step", "scheduler_step">>
    ELSE <<"zero_grad", "forward", "criterion", "backward", "optimizer_step">>

\* Variant: the step is the epoch plus the batch index.
BatchStepEpochPlusBatch == epoch + batch

\* The step the Train/batch_loss scalar is recorded under.
BatchStep == epoch * num_batches + batch

\* One iteration of the training batch loop.
TrainBatch(grads) ==
    /\ pc = "train"
    /\ batch < num_batches
    /\ \E g \in grads :
         last_step' = [epoch |-> epoch, batch |-> batch, grad |-> g,
                       applied |-> AppliedGrad(g), ops |-> BatchOps]
    /\ seen' = Append(seen,
         [sentences |-> Slice(data_module.train_texts, batch, config.batch_size_train),
          labels |-> Slice(data_module.train_pols, batch, config.batch_size_train)])
    /\ model' = model + 1
    /\ optimizer' = optimizer + 1
    /\ scheduler' =
         IF config.use_BERT
         THEN <<[scheduler[1] EXCEPT !.steps = @ + 1]>>
         ELSE scheduler
    /\ train_writer' = Append(train_writer, BatchStep)
    /\ batch' = batch + 1
    /\ UNCHANGED <<config, data_module, pc, epoch, num_batches, best_epoch,
                   predictions, total_loss, epoch_dirs, e_best, save_log,
                   val_writer, logger>>

(* ------------------------------ eval_model ---------------------------- *)
\* Variant: the batch loop stops one batch short (range(num_batches - 1)).
BeginEvalEarly ==
    /\ pc = "train"
    /\ batch >= num_batches - 1
    /\ num_batches' = NumBatches(data_module.val_texts, config.batch_size_val)
    /\ predictions' = <<>>
    /\ total_loss' = <<>>
    /\ seen' = <<>>
    /\ batch' = 0
    /\ pc' = "eval"
    /\ UNCHANGED <<config, data_module, epoch, model, optimizer, scheduler,
                   best_epoch, last_step, epoch_dirs, e_best, save_log,
                   train_writer, val_writer, logger>>

\* The batch loop of run_epoch is over: the epoch summary is logged and
\* eval_model starts its pass over the validation split.
BeginEval ==
    /\ pc = "train"
    /\ batch = num_batches
    /\ num_batches' = NumBatches(data_module.val_texts, config.batch_size_val)
    /\ predictions' = <<>>
    /\ total_loss' = <<>>
    /\ seen' = <<>>
    /\ batch' = 0
    /\ pc' = "eval"
    /\ UNCHANGED <<config, data_module, epoch, model, optimizer, scheduler,
                   best_epoch, last_step, epoch_dirs, e_best, save_log,
                   train_writer, val_writer, logger>>

\* Variant: the record is kept as a running best over the batches.
EvalBatchRunningBest(losses) ==
    /\ pc = "eval"
    /\ batch < num_batches
    /\ LET sentences == Slice(data_module.val_texts, batch, config.batch_size_val)
           labels == Slice(data_module.val_pols, batch, config.batch_size_val)
       IN /\ predictions' = predictions \o Inference(model, sentences)
          /\ seen' = Append(seen, [sentences |-> sentences, labels |-> labels])
    /\ \E loss \in losses :
         /\ total_loss' = Append(total_loss, loss)
         /\ best_epoch' = IF LossLess(loss, best_epoch[2]) THEN <<epoch, loss>>
                          ELSE best_epoch
    /\ batch' = batch + 1
    /\ UNCHANGED <<config, data_module, pc, epoch, num_batches, model, optimizer,
                   scheduler, last_step, epoch_dirs, e_best, save_log,
                   train_writer, val_writer, logger>>

\* One iteration of the validation batch loop.
EvalBatch(losses) ==
    /\ pc = "eval"
    /\ batch < num_batches
    /\ LET sentences == Slice(data_module.val_texts, batch, config.batch_size_val)
           labels == Slice(data_module.val_pols, batch, config.batch_size_val)
       IN /\ predictions' = predictions \o Inference(model, sentences)
          /\ seen' = Append(seen, [sentences |-> sentences, labels |-> labels])
    /\ \E loss \in losses : total_loss' = Append(total_loss, loss)
    /\ batch' = batch + 1
    /\ UNCHANGED <<config, data_module, pc, epoch, num_batches, model, optimizer,
                   scheduler, best_epoch, last_step, epoch_dirs, e_best,
                   save_log, train_writer, val_writer, logger>>

\* utils.compute_accuracy: correct predictions over the size of the split.
ComputeAccuracy(preds, pols) ==
    [correct |-> Cardinality({i \in 1..Min(Len(preds), Len(pols)) : preds[i] = pols[i]}),
     total |-> Len(pols)]

\* Variant: the record is also replaced on a tie (<= for <).
BestUpdateOnTie(best, e, loss) ==
    IF LossLess(loss, best[2]) \/ loss = best[2] THEN <<e, loss>> ELSE best

\* if total_loss < best_epoch[1]: best_epoch = (epoch, total_loss)
BestUpdate(best, e, loss) == IF LossLess(loss, best[2]) THEN <<e, loss>> ELSE best

\* The validation pass is over: mean loss, best_epoch, the Val scalars.
EndEval ==
    /\ pc = "eval"
    /\ batch = num_batches
    /\ best_epoch' = BestUpdate(best_epoch, epoch, NpMean(total_loss))
    /\ val_writer' = Append(val_writer,
         [epoch |-> epoch, loss |-> NpMean(total_loss),
          acc |-> ComputeAccuracy(predictions, data_module.val_pols),
          best |-> best_epoch'])
    /\ pc' = "save"
    /\ UNCHANGED <<config, data_module, epoch, batch, num_batches, model,
                   optimizer, scheduler, predictions, total_loss, seen,
                   last_step, epoch_dirs, e_best, save_log, train_writer, logger>>

(* ------------------------------ save_model ---------------------------- *)
\* Variant: every epoch is written to the directory of epoch 1.
SavePathFixed(e) == 1

\* save_path = checkpoints/epoch_<epoch>: the directory is named by its epoch.
SavePath(e) == e

\* What a write that raised midway leaves in model.pth.
TruncatedCheckpoint(e) == Checkpoint(e, 0 - 1, 0 - 1)

\* Variant: a checkpoint is written only for an epoch that improved.
SaveModelIfBest ==
    /\ pc = "save"
    /\ LET ckpt == Checkpoint(epoch, model, optimizer)
       IN IF best_epoch[1] = epoch
          THEN /\ epoch_dirs' = (SavePath(epoch) :> ckpt) @@ epoch_dirs
               /\ save_log' = Append(save_log, ckpt)
          ELSE UNCHANGED <<epoch_dirs, save_log>>
    /\ pc' = IF epoch = config.num_epoch THEN "promote" ELSE "epoch_loop"
    /\ UNCHANGED <<config, data_module, epoch, batch, num_batches, model,
                   optimizer, scheduler, best_epoch, predictions, total_loss,
                   seen, last_step, e_best, train_writer, val_writer, logger>>

\* save_model(epoch): checkpoints/epoch_<epoch>/model.pth is written.
SaveModel ==
    /\ pc = "save"
    /\ LET ckpt == Checkpoint(epoch, model, optimizer)
       IN /\ epoch_dirs' = (SavePath(epoch) :> ckpt) @@ epoch_dirs
          /\ save_log' = Append(save_log, ckpt)
    /\ pc' = IF epoch = config.num_epoch THEN "promote" ELSE "epoch_loop"
    /\ UNCHANGED <<config, data_module, epoch, batch, num_batches, model,
                   optimizer, scheduler, best_epoch, predictions, total_loss,
                   seen, last_step, e_best, train_writer, val_writer, logger>>

\* save_model(epoch) raises: os.makedirs fails and nothing is written, or
\* torch.save fails and leaves a truncated model.pth in the epoch's own
\* directory.  Nothing catches the exception, so the run ends.
SaveModelFails ==
    /\ pc = "save"
    /\ \/ UNCHANGED epoch_dirs
       \/ epoch_dirs' = (SavePath(epoch) :> TruncatedCheckpoint(epoch)) @@ epoch_dirs
    /\ pc' = "crashed"
    /\ UNCHANGED <<config, data_module, epoch, batch, num_batches, model,
                   optimizer, scheduler, best_epoch, predictions, total_loss,
                   seen, last_step, e_best, save_log, train_writer, val_writer,
                   logger>>

\* The directory os.rename moves to checkpoints/e_best.
PromotedEpoch == best_epoch[1]

\* if epoch == config.num_epoch: os.rename(epoch_<best>, e_best).  The call
\* raises when the source is missing or the target is a non-empty directory.
Promote ==
    /\ pc = "promote"
    /\ IF PromotedEpoch \in DOMAIN epoch_dirs /\ e_best = <<>>
       THEN /\ e_best' = <<epoch_dirs[PromotedEpoch]>>
            /\ epoch_dirs' = [k \in DOMAIN epoch_dirs \ {PromotedEpoch} |-> epoch_dirs[k]]
            /\ pc' = "epoch_loop"
       ELSE /\ pc' = "crashed"
            /\ UNCHANGED <<e_best, epoch_dirs>>
    /\ UNCHANGED <<config, data_module, epoch, batch, num_batches, model,
                   optimizer, scheduler, best_epoch, predictions, total_loss,
                   seen, last_step, save_log, train_writer, val_writer, logger>>

\* The epoch loop is over: load checkpoints/e_best/model.pth into the model.
LoadBest ==
    /\ pc = "epoch_loop"
    /\ epoch = config.num_epoch
    /\ IF e_best # <<>>
       THEN /\ model' = e_best[1].model_state_dict
            /\ pc' = "test_begin"
       ELSE /\ pc' = "crashed"
            /\ UNCHANGED model
    /\ UNCHANGED <<config, data_module, epoch, batch, num_batches, optimizer,
                   scheduler, best_epoch, predictions, total_loss, seen,
                   last_step, epoch_dirs, e_best, save_log, train_writer,
                   val_writer, logger>>

(* ------------------------------ test_model ---------------------------- *)
\* Variant: test_on_val is ignored, the pass always reads the test split.
BeginTestIgnoresOnVal ==
    /\ pc = "test_begin"
    /\ num_batches' = NumBatches(data_module.test_texts, config.batch_size_test)
    /\ predictions' = <<>>
    /\ seen' = <<>>
    /\ batch' = 0
    /\ pc' = "test"
    /\ UNCHANGED <<config, data_module, epoch, model, optimizer, scheduler,
                   best_epoch, total_loss, last_step, epoch_dirs, e_best,
                   save_log, train_writer, val_writer, logger>>

\* test_model starts: test_on_val substitutes the validation split.
BeginTest ==
    /\ pc = "test_begin"
    /\ data_module' =
         IF config.test_on_val
         THEN [data_module EXCEPT !.test_texts = data_module.val_texts,
                                  !.test_pols = data_module.val_pols]
         ELSE data_module
    /\ num_batches' = NumBatches(data_module'.test_texts, config.batch_size_test)
    /\ predictions' = <<>>
    /\ seen' = <<>>
    /\ batch' = 0
    /\ pc' = "test"
    /\ UNCHANGED <<config, epoch, model, optimizer, scheduler, best_epoch,
                   total_loss, last_step, epoch_dirs, e_best, save_log,
                   train_writer, val_writer, logger>>

\* Variant: the index restarts with every batch.
SentenceIndexInBatch(b, idx) == idx + 1

\* The index logged for the idx-th sentence (idx from 0) of a test batch.
SentenceIndex(b, idx) == b * config.batch_size_test + (idx + 1)

\* One iteration of the test batch loop: inference, then one diagnostic
\* record per sentence of the batch.
TestBatch ==
    /\ pc = "test"
    /\ batch < num_batches
    /\ LET sentences == Slice(data_module.test_texts, batch, config.batch_size_test)
           labels == Slice(data_module.test_pols, batch, config.batch_size_test)
           preds == Inference(model, sentences)
       IN /\ predictions' = predictions \o preds
          /\ seen' = Append(seen, [sentences |-> sentences, labels |-> labels])
          /\ logger' = logger \o
               [i \in 1..Len(sentences) |->
                  LogRecord("sentence", SentenceIndex(batch, i - 1), sentences[i],
                            labels[i], preds[i])]
    /\ batch' = batch + 1
    /\ UNCHANGED <<config, data_module, pc, epoch, num_batches, model, optimizer,
                   scheduler, best_epoch, total_loss, last_step, epoch_dirs,
                   e_best, save_log, train_writer, val_writer>>

\* The test pass is over: the test accuracy is logged.
EndTest ==
    /\ pc = "test"
    /\ batch = num_batches
    /\ logger' = Append(logger,
         LogRecord("test_accuracy", 0, 0, 0,
                   ComputeAccuracy(predictions, data_module.test_pols).correct))
    /\ pc' = "done"
    /\ UNCHANGED <<config, data_module, epoch, batch, num_batches, model,
                   optimizer, scheduler, best_epoch, predictions, total_loss,
                   seen, last_step, epoch_dirs, e_best, save_log, train_writer,
                   val_writer>>

NextWith(grads, losses) ==
    \/ StartTrain
    \/ StartTest
    \/ ExitIncorrectMode
    \/ BeginEpoch
    \/ TrainBatch(grads)
    \/ BeginEval
    \/ EvalBatch(losses)
    \/ EndEval
    \/ SaveModel
    \/ Promote
    \/ LoadBest
    \/ BeginTest
    \/ TestBatch
    \/ EndTest

\* The run as a whole: every mode and backbone, the epoch loop, the
\* training split and its batch size.
Next == NextWith({MaxGrad}, BatchLosses)
Spec == Init /\ [][Next]_vars

\* The three batch loops: every split size and batch size.
InitBatch ==
    \/ InitWith(Configs({"train"}, {0}, {1}, 1..MaxBatch, 1..MaxBatch, {1},
                        BOOLEAN),
                0..MaxTrain, 0..MaxEval, {1}, {<<>>})
    \/ InitWith(Configs(Modes \ {"train"}, {0}, {1}, {1}, {1}, 1..MaxBatch,
                        BOOLEAN),
                {1}, 0..MaxEval, 0..MaxEval, {<<>>})
NextBatch == NextWith({0}, FiniteLosses(0, 0, 1))
SpecBatch == InitBatch /\ [][NextBatch]_vars

\* The training step: every backbone, clip_norm and gradient norm.
InitClip ==
    InitWith(Configs(Modes, (0 - 1)..MaxClip, {1}, 1..MaxBatch, {1}, {1},
                     {FALSE}),
             1..2, {1}, {1}, {<<>>})
NextClip == NextWith(0..MaxGrad, FiniteLosses(0, 0, 1))
SpecClip == InitClip /\ [][NextClip]_vars

\* The promotion of the best checkpoint: every outcome of the validation
\* passes, on a base path with and without an e_best of an earlier run.
InitPromote ==
    InitWith(Configs(Modes, {0}, 1..MaxEpoch, {1}, 1..MaxBatch, {1}, {FALSE}),
             1..2, 0..2, {1}, Stale)
NextPromote == NextWith({0}, BatchLosses \cup {Inf})
SpecPromote == InitPromote /\ [][NextPromote]_vars

\* The best-epoch record: validation losses in tenths, +infinity and NaN
\* over up to MaxRecordEpoch epochs.
InitRecord ==
    InitWith(Configs(Modes, {0}, 1..MaxRecordEpoch, {1}, {1}, {1}, {FALSE}),
             {1}, {1}, {1}, {<<>>})
NextRecord == NextWith({0}, FiniteLosses(6, 9, 10) \cup {Inf, NaN})
SpecRecord == InitRecord /\ [][NextRecord]_vars

\* The checkpoint writes when the file system can fail: every epoch count,
\* on a base path with and without an e_best of an earlier run.
InitSave ==
    InitWith(Configs(Modes, {0}, 1..(MaxEpoch + 1), {1}, {1}, {1}, {FALSE}),
             {1}, {1}, {1}, Stale)
NextSave == NextWith({0}, BatchLosses) \/ SaveModelFails
SpecSave == InitSave /\ [][NextSave]_vars

\* The validation pass: every split size and batch size, with finite and
\* non-finite batch losses.
InitEval ==
    InitWith(Configs(Modes, {0}, {1}, {1}, 1..MaxBatch, {1}, {FALSE}),
             {1}, 0..MaxEval, {1}, {<<>>})
NextEval == NextWith({0}, BatchLosses \cup {Inf})
SpecEval == InitEval /\ [][NextEval]_vars

(* ====================================================================== *)
(* Properties                                                              *)
(* ====================================================================== *)
TrainMode == config.mode = "train"

\* a is a strictly lower loss than b: NaN is never lower or higher than
\* anything, +infinity is lower than nothing.
StrictlyLower(a, b) ==
    /\ a.k = "fin"
    /\ \/ b.k = "inf"
       \/ b.k = "fin" /\ a.num * b.den < b.num * a.den

SameLoss(a, b) ==
    \/ a.k = "inf" /\ b.k = "inf"
    \/ a.k = "fin" /\ b.k = "fin" /\ a.num * b.den = b.num * a.den

\* The record before and after the validation pass of epoch i.
RecordBefore(i) == IF i = 1 THEN <<0, Inf>> ELSE val_writer[i - 1].best
RecordAfter(i) == val_writer[i].best

ValLosses == [i \in 1..Len(val_writer) |-> val_writer[i].loss]
Records == [i \in 1..Len(val_writer) |-> val_writer[i].best]

Tenths(n) == Fin(n, 10)
ExampleLosses == <<Tenths(9), Tenths(7), Tenths(8), Tenths(6)>>
ExampleRecords ==
    <<(<<1, Tenths(9)>>), (<<2, Tenths(7)>>), (<<2, Tenths(7)>>), (<<4, Tenths(6)>>)>>

\* C1: the best-epoch record starts as (0, +infinity); the validation pass
\* of epoch k replaces it by (k, loss_k) exactly when loss_k is strictly
\* lower than the recorded loss and leaves it unchanged otherwise, so the
\* recorded loss never increases and a tie keeps the earlier epoch; the
\* losses 0.9, 0.7, 0.8, 0.6 give (1,0.9), (2,0.7), (2,0.7), (4,0.6).
C1_BestEpochRecord ==
    /\ (TrainMode /\ pc # "start" /\ val_writer = <<>>) => best_epoch = <<0, Inf>>
    /\ val_writer # <<>> => best_epoch = RecordAfter(Len(val_writer))
    /\ \A i \in 1..Len(val_writer) :
         LET loss == val_writer[i].loss
             before == RecordBefore(i)
             after == RecordAfter(i)
         IN /\ val_writer[i].epoch = i
            /\ StrictlyLower(loss, before[2]) => after = <<i, loss>>
            /\ ~StrictlyLower(loss, before[2]) => after = before
            /\ after[2].k # "nan"
            /\ ~StrictlyLower(before[2], after[2])
            /\ SameLoss(loss, before[2]) => after[1] = before[1]
    /\ \A n \in 1..4 :
         ValLosses = SubSeq(ExampleLosses, 1, n) => Records = SubSeq(ExampleRecords, 1, n)

\* C1 witness: the four validation passes of the example have run.
C1_Witness == ValLosses = ExampleLosses /\ Records = ExampleRecords

(* ---------------------------------------------------------------------- *)
\* Training batches of one epoch.
TrainBatchesPerEpoch == NumBatches(data_module.train_texts, config.batch_size_train)

\* The rename has succeeded and the epoch loop is over.
PromotionDone ==
    /\ TrainMode
    /\ \/ pc \in {"test_begin", "test", "done"}
       \/ pc = "epoch_loop" /\ epoch = config.num_epoch

\* What the rename and the load leave when they succeed: e_best holds the
\* checkpoint written at the epoch of the record, that epoch's directory is
\* gone, the others are as written, and the model under test carries the
\* parameters saved at that epoch.
BestPromotedAndLoaded ==
    /\ PromotionDone =>
         LET b == best_epoch[1]
         IN /\ b \in 1..config.num_epoch
            /\ save_log[b].epoch = b
            /\ e_best = <<save_log[b]>>
            /\ DOMAIN epoch_dirs = (1..config.num_epoch) \ {b}
            /\ \A k \in DOMAIN epoch_dirs : epoch_dirs[k] = save_log[k]
    /\ (TrainMode /\ pc \in {"test_begin", "test", "done"}) =>
         model = save_log[best_epoch[1]].model_state_dict

\* C2: in train mode, once the checkpoint of the final epoch is written,
\* the checkpoint directory of the epoch held in the best-epoch record is
\* promoted to e_best, and the parameters in the live model at the final
\* test pass are the ones saved at that epoch.
C2_PromoteAndLoadBest ==
    /\ (TrainMode /\ pc = "promote") =>
         /\ Len(save_log) = config.num_epoch
         /\ save_log[config.num_epoch].epoch = config.num_epoch
    /\ (TrainMode /\ Len(save_log) = config.num_epoch /\ pc \notin {"save", "promote"}) =>
         PromotionDone
    /\ BestPromotedAndLoaded

\* Epochs whose run_epoch has got past save_model.
EpochsSaved ==
    CASE pc = "start" -> 0
      [] pc \in {"train", "eval", "save"} -> epoch - 1
      [] OTHER -> epoch

\* C3: once epoch k has finished, one checkpoint write has been issued for
\* each of the epochs 1..k and for no other, improved or not, each with the
\* epoch number and the model and optimizer state left by the last training
\* batch of its epoch, in its own directory.
C3_CheckpointEveryEpoch ==
    TrainMode =>
      /\ Len(save_log) = EpochsSaved
      /\ \A k \in 1..Len(save_log) :
           /\ save_log[k] = Checkpoint(k, k * TrainBatchesPerEpoch, k * TrainBatchesPerEpoch)
           /\ \/ k \in DOMAIN epoch_dirs /\ epoch_dirs[k] = save_log[k]
              \/ PromotionDone /\ k = best_epoch[1] /\ e_best = <<save_log[k]>>
      /\ DOMAIN epoch_dirs \subseteq 1..Len(save_log)
      /\ pc = "save" => model = epoch * TrainBatchesPerEpoch /\ optimizer = model

\* C3 witness: the second epoch did not improve and was saved all the same.
C3_Witness ==
    /\ TrainMode
    /\ TrainBatchesPerEpoch > 0
    /\ Len(save_log) = 2
    /\ best_epoch[1] = 1
    /\ 2 \in DOMAIN epoch_dirs

PhasePairs ==
    {<<"start", "epoch_loop">>, <<"epoch_loop", "train">>, <<"train", "train">>,
     <<"train", "eval">>, <<"eval", "eval">>, <<"eval", "save">>,
     <<"save", "epoch_loop">>, <<"save", "promote">>, <<"promote", "epoch_loop">>,
     <<"promote", "crashed">>, <<"epoch_loop", "test_begin">>,
     <<"test_begin", "test">>, <<"test", "test">>, <<"test", "done">>}

\* One step of a training run keeps to the phase order.
PhaseStep ==
    /\ <<pc, pc'>> \in PhasePairs
    /\ epoch' = IF pc = "epoch_loop" /\ pc' = "train" THEN epoch + 1 ELSE epoch
    /\ (pc = "epoch_loop" /\ pc' = "train") => epoch < config.num_epoch
    /\ (pc = "train" /\ pc' = "eval") => batch = num_batches
    /\ (pc = "eval" /\ pc' = "save") => batch = num_batches
    /\ (pc = "save" /\ pc' = "epoch_loop") => epoch < config.num_epoch
    /\ (pc = "save" /\ pc' = "promote") => epoch = config.num_epoch
    /\ (pc = "epoch_loop" /\ pc' = "test_begin") => epoch = config.num_epoch

\* What has been done when the run is in a phase: training batches,
\* validation passes, checkpoint writes.
PhaseInv ==
    LET t == Len(train_writer)
        v == Len(val_writer)
        s == Len(save_log)
        nb == TrainBatchesPerEpoch
    IN /\ epoch \in 0..config.num_epoch
       /\ pc = "epoch_loop" => t = epoch * nb /\ v = epoch /\ s = epoch
       /\ pc = "train" => t = (epoch - 1) * nb + batch /\ batch <= nb
                          /\ v = epoch - 1 /\ s = epoch - 1
       /\ pc = "eval" => t = epoch * nb /\ v = epoch - 1 /\ s = epoch - 1
       /\ pc = "save" => t = epoch * nb /\ v = epoch /\ s = epoch - 1
       /\ pc \in {"promote", "crashed", "test_begin", "test", "done"} =>
            /\ epoch = config.num_epoch
            /\ t = epoch * nb /\ v = epoch /\ s = epoch
       /\ \A i \in 1..v : val_writer[i].epoch = i
       /\ \A i \in 1..s : save_log[i].epoch = i
       /\ v * nb <= t /\ t <= (v + 1) * nb
       /\ s <= v /\ v <= s + 1
       /\ t <= (s + 1) * nb
       /\ e_best \notin Stale => s = config.num_epoch
       /\ (\E i \in 1..Len(logger) : logger[i].kind = "sentence") => s = config.num_epoch

\* C4: a training run goes Idle, then Epoch(k), Evaluating(k),
\* Checkpointing(k) for k = 1..N in increasing k, then Finalizing: all
\* training batches of an epoch precede its validation pass, which precedes
\* its checkpoint write, which precedes every training batch of the next
\* epoch; promotion and the test pass come after the checkpoint of epoch N.
C4_Phases == [](TrainMode => PhaseInv) /\ [][TrainMode => PhaseStep]_vars

\* C4 witness: the second epoch is training after the first was saved.
C4_Witness ==
    /\ TrainMode
    /\ pc = "train"
    /\ epoch = 2
    /\ batch = 1
    /\ Len(save_log) = 1
    /\ Len(val_writer) = 1

(* ---------------------------------------------------------------------- *)
InPass == pc \in {"train", "eval", "test", "done"}

\* The split, its labels and the batch size of the pass in progress.
PassTexts ==
    CASE pc = "train" -> data_module.train_texts
      [] pc = "eval" -> data_module.val_texts
      [] OTHER -> data_module.test_texts
PassPols ==
    CASE pc = "train" -> data_module.train_pols
      [] pc = "eval" -> data_module.val_pols
      [] OTHER -> data_module.test_pols
PassBatchSize ==
    CASE pc = "train" -> config.batch_size_train
      [] pc = "eval" -> config.batch_size_val
      [] OTHER -> config.batch_size_test

\* ceil(n / b): the least number of groups of b that hold n.
LeastCover(n, b) ==
    CHOOSE q \in 0..n : q * b >= n /\ \A r \in 0..n : r * b >= n => q <= r

\* The batches of the pass that hold example x.
BatchesHolding(x) ==
    {<<i, j>> \in (1..Len(seen)) \X (1..PassBatchSize) :
        j <= Len(seen[i].sentences) /\ seen[i].sentences[j] = x}

\* C5: a pass over a split S with batch size b takes ceil(|S|/b) batches;
\* batch i is the slice S[i*b : (i+1)*b] (of the shuffled split when
\* training) with its labels sliced alike, holds 1 to b examples, the sizes
\* add up to |S|, every example is in exactly one batch, and an empty split
\* gives no batch.
C5_Batching ==
    InPass =>
      LET S == PassTexts
          P == PassPols
          b == PassBatchSize
      IN /\ num_batches = LeastCover(Len(S), b)
         /\ Len(seen) = batch
         /\ batch <= num_batches
         /\ pc = "done" => batch = num_batches
         /\ Len(S) = 0 => num_batches = 0 /\ seen = <<>>
         /\ pc = "train" =>
              /\ Len(S) = Len(P)
              /\ Range(S) = 1..Len(S)
              /\ \A i \in 1..Len(S) : P[i] = Label(S[i])
         /\ \A i \in 1..Len(seen) :
              LET sentences == seen[i].sentences
                  labels == seen[i].labels
              IN /\ Len(sentences) \in 1..b
                 /\ Len(labels) = Len(sentences)
                 /\ i < num_batches => Len(sentences) = b
                 /\ \A j \in 1..Len(sentences) :
                      /\ sentences[j] = S[(i - 1) * b + j]
                      /\ labels[j] = P[(i - 1) * b + j]
                      /\ labels[j] = Label(sentences[j])
         /\ batch = num_batches =>
              /\ Flatten([i \in 1..Len(seen) |-> seen[i].sentences]) = S
              /\ Flatten([i \in 1..Len(seen) |-> seen[i].labels]) = P
              /\ SumSeq([i \in 1..Len(seen) |-> Len(seen[i].sentences)]) = Len(S)
              /\ \A k \in 1..Len(S) : Cardinality(BatchesHolding(S[k])) = 1

\* C5 witness: a finished training pass over a shuffled split of three
\* examples in batches of two, the last batch partial.
C5_Witness ==
    /\ pc = "train"
    /\ batch = num_batches
    /\ config.batch_size_train = 2
    /\ Len(data_module.train_texts) = 3
    /\ data_module.train_texts # Texts(0, 3)
    /\ Len(seen[2].sentences) = 1

(* ---------------------------------------------------------------------- *)
\* The places of a call among the calls of the last training batch.
Places(op) == {i \in 1..Len(last_step.ops) : last_step.ops[i] = op}

\* The clipping call sits between backpropagation and the optimizer step.
ClippedInOrder ==
    \E b \in Places("backward"), c \in Places("clip_grad_norm"),
       o \in Places("optimizer_step") : b < c /\ c < o

\* C6: for every training batch and every backbone, with clip_norm > 0 the
\* gradient is clipped to clip_norm between backpropagation and the
\* optimizer step, so the update uses a gradient of norm at most clip_norm
\* (clip_norm 1 and norm 5 give norm 1); with clip_norm <= 0 nothing is
\* clipped.
C6_ClipEveryBackbone ==
    last_step.ops # <<>> =>
      IF config.clip_norm > 0
      THEN /\ ClippedInOrder
           /\ last_step.applied = Min(last_step.grad, config.clip_norm)
      ELSE /\ Places("clip_grad_norm") = {}
           /\ last_step.applied = last_step.grad

(* ---------------------------------------------------------------------- *)
\* The epoch loop of a training run is over.
TrainingOver ==
    /\ TrainMode
    /\ \/ pc \in {"promote", "crashed", "test_begin", "test", "done"}
       \/ pc = "epoch_loop" /\ epoch = config.num_epoch

\* Checkpoint directories created by the run, the promoted one included.
DirectoriesCreated ==
    Cardinality(DOMAIN epoch_dirs) + (IF PromotionDone THEN 1 ELSE 0)

\* The counts of a finished training loop.
RunCounts ==
    /\ Len(train_writer) =
         config.num_epoch * LeastCover(Len(data_module.train_texts), config.batch_size_train)
    /\ Len(val_writer) = config.num_epoch
    /\ Len(save_log) = config.num_epoch
    /\ DirectoriesCreated = config.num_epoch

\* C7: a training run over n examples with batch size b and N epochs
\* processes N * ceil(n/b) training batches, runs N validation passes and
\* creates N checkpoint directories; with n = 4, b = 2, N = 1 that is two
\* batches, one directory for epoch 1, one validation pass, and the record
\* goes from (0, +infinity) to (1, observed loss).
C7_RunCounts ==
    TrainingOver =>
      /\ RunCounts
      /\ ( /\ Len(data_module.train_texts) = 4
           /\ config.batch_size_train = 2
           /\ config.num_epoch = 1 ) =>
           /\ Len(train_writer) = 2
           /\ Len(save_log) = 1 /\ save_log[1].epoch = 1
           /\ Len(val_writer) = 1
           /\ RecordBefore(1) = <<0, Inf>>
           /\ best_epoch = <<1, val_writer[1].loss>>

(* ---------------------------------------------------------------------- *)
\* A step that changes the record is the end of a complete validation
\* pass: every validation batch has been processed and the record takes
\* the epoch and the mean of all the batch losses.
RecordWrite ==
    /\ TrainMode
    /\ pc = "eval" /\ pc' = "save"
    /\ num_batches = LeastCover(Len(data_module.val_texts), config.batch_size_val)
    /\ batch = num_batches
    /\ Len(total_loss) = num_batches
    /\ Len(predictions) = Len(data_module.val_texts)
    /\ best_epoch' = <<epoch, NpMean(total_loss)>>
    /\ best_epoch[1] < epoch
    /\ Len(val_writer') = epoch

\* C8: the run has one best-epoch record; it is written at most once per
\* epoch and only when the whole validation pass of the epoch is done and
\* its mean loss computed: no training batch, partial validation pass,
\* checkpoint write, promotion or test pass changes it.
C8_RecordWrittenAfterFullPass == [][best_epoch' # best_epoch => RecordWrite]_vars

\* C8 witness: the record was written at epoch 1 and again at epoch 2,
\* each time after a validation pass of two batches.
C8_Witness ==
    /\ TrainMode
    /\ pc = "save"
    /\ epoch = 2
    /\ Len(total_loss) = 2
    /\ val_writer[1].best[1] = 1
    /\ best_epoch[1] = 2

(* ---------------------------------------------------------------------- *)
\* The per-sentence records logged by test_model, in the order logged.
SentenceRecords == SelectSeq(logger, LAMBDA r : r.kind = "sentence")

\* The split test_model reads, in its native order.
NativeTestSplit ==
    IF config.test_on_val
    THEN Texts(10, Len(data_module.val_texts))
    ELSE Texts(20, Len(data_module.test_texts))

\* C9: a test pass logs one record per example of the test split, in the
\* split's order, numbered 1, 2, ... across batches without restarting;
\* record i carries the tokens and gold label of example i and the
\* prediction made for that example.
C9_TestRecords ==
    pc \in {"test", "done"} =>
      LET S == data_module.test_texts
          recs == SentenceRecords
          shown == IF batch * config.batch_size_test < Len(S)
                   THEN batch * config.batch_size_test ELSE Len(S)
      IN /\ S = NativeTestSplit
         /\ Len(recs) = shown
         /\ pc = "done" => Len(recs) = Len(S)
         /\ \A i \in 1..Len(recs) :
              /\ recs[i].index = i
              /\ recs[i].sentence = S[i]
              /\ recs[i].label = data_module.test_pols[i]
              /\ recs[i].label = Label(S[i])
              /\ recs[i].prediction = Predict(model, S[i])
              /\ recs[i].prediction = predictions[i]

\* C9 witness: a finished test pass over three examples in batches of two.
C9_Witness ==
    /\ pc = "done"
    /\ config.batch_size_test = 2
    /\ Len(data_module.test_texts) = 3
    /\ Len(SentenceRecords) = 3
    /\ SentenceRecords[3].index = 3

\* C10: with a mode that is neither train nor test the run logs the error
\* and ends: no model is built or loaded, no training batch, validation
\* pass or test pass runs and no checkpoint is written or promoted.
C10_IncorrectModeExits ==
    config.mode \notin {"train", "test"} =>
      /\ pc \in {"start", "exited"}
      /\ pc = "exited" => logger = <<LogRecord("incorrect_mode", 0, 0, 0, 0)>>
      /\ pc = "start" => logger = <<>>
      /\ model = 0 /\ optimizer = 0 /\ scheduler = <<>>
      /\ epoch = 0 /\ batch = 0 /\ seen = <<>> /\ predictions = <<>>
      /\ last_step = NoStep
      /\ train_writer = <<>> /\ val_writer = <<>>
      /\ save_log = <<>> /\ epoch_dirs = <<>> /\ e_best = <<>>
      /\ best_epoch = <<0, Inf>>

\* C10 witness: the run has exited on an unrecognised mode.
C10_Witness ==
    /\ config.mode \notin {"train", "test"}
    /\ pc = "exited"
    /\ Len(logger) = 1

(* ---------------------------------------------------------------------- *)
\* The write of the current epoch's checkpoint raised.
SaveFailed == pc = "crashed" /\ Len(save_log) < epoch

\* A step of save_model leaves e_best and every directory but the current
\* epoch's own as they were.
SaveTouchesOwnDirectory ==
    pc = "save" =>
        /\ e_best' = e_best
        /\ \A k \in (DOMAIN epoch_dirs \cup DOMAIN epoch_dirs') \ {epoch} :
              /\ k \in DOMAIN epoch_dirs
              /\ k \in DOMAIN epoch_dirs'
              /\ epoch_dirs'[k] = epoch_dirs[k]

\* After a failed write of epoch k the checkpoints of epochs 1..k-1 are the
\* ones written, and nothing of a later epoch, a promotion or a test pass
\* is there.
AbortedAtSave ==
    SaveFailed =>
        /\ Len(save_log) = epoch - 1
        /\ \A k \in 1..(epoch - 1) :
              k \in DOMAIN epoch_dirs /\ epoch_dirs[k] = save_log[k]
        /\ DOMAIN epoch_dirs \subseteq 1..epoch
        /\ Len(val_writer) = epoch
        /\ e_best \in Stale
        /\ logger = <<>>

\* C11: a checkpoint write failure at epoch k ends the run (no later epoch,
\* promotion or test pass) with the checkpoints of epochs 1..k-1 unchanged,
\* and writing the checkpoint of epoch k never touches another epoch's
\* directory.
C11_SaveFailureAborts ==
    /\ [](TrainMode => AbortedAtSave)
    /\ [][TrainMode => SaveTouchesOwnDirectory /\ (SaveFailed => FALSE)]_vars

\* A write failed at epoch 2 midway, with the checkpoint of epoch 1 in place.
C11_Witness ==
    /\ SaveFailed
    /\ epoch = 2
    /\ epoch_dirs = (1 :> save_log[1]) @@ (2 :> TruncatedCheckpoint(2))


(* ---------------------------------------------------------------------- *)
\* The base path held no e_best when the run started: the run never removes
\* or replaces one that was there.
StartedWithoutEBest == e_best # <<StaleCheckpoint>>

\* The training run has come to its end, by the test pass or by an exception.
RunEnded == TrainMode /\ pc \in {"done", "crashed"}

\* e_best is absent until the checkpoint of the last epoch is written, and
\* the only step that creates it is the rename that follows that write.
EBestOnlyAfterTraining ==
    /\ [](TrainMode /\ StartedWithoutEBest /\ Len(save_log) < config.num_epoch
            => e_best = <<>>)
    /\ [][TrainMode /\ e_best' # e_best
            => e_best = <<>> /\ pc = "promote" /\ Len(save_log) = config.num_epoch]_vars

\* C12: from a base path with no e_best, e_best does not exist before the
\* checkpoint of the final epoch N is written, and the run creates it exactly
\* once.
C12_EBestCreatedOnce ==
    /\ EBestOnlyAfterTraining
    /\ [](RunEnded /\ StartedWithoutEBest => e_best # <<>>)


(* ---------------------------------------------------------------------- *)
\* The place of a call in the order of one training step; the loss is read
\* from the outputs (transformer) or computed by the criterion (CNN, LSTM).
StepRank(op) ==
    CASE op = "zero_grad" -> 1
      [] op = "forward" -> 2
      [] op \in {"outputs_loss", "criterion"} -> 3
      [] op = "backward" -> 4
      [] op = "clip_grad_norm" -> 5
      [] op = "optimizer_step" -> 6
      [] op = "scheduler_step" -> 7
      [] OTHER -> 0

\* The calls of the last training batch follow the order of StepRank, none
\* of them twice, with the optimizer step in every batch and the scheduler
\* step in the transformer's batches only.
StepsInOrder ==
    LET ops == last_step.ops
    IN /\ \A i \in 1..Len(ops) : StepRank(ops[i]) > 0
       /\ \A i, j \in 1..Len(ops) : i < j => StepRank(ops[i]) < StepRank(ops[j])
       /\ {1, 2, 3, 4, 6} \subseteq {StepRank(ops[i]) : i \in 1..Len(ops)}
       /\ Cardinality(Places("optimizer_step")) = 1
       /\ Cardinality(Places("scheduler_step")) = (IF config.use_BERT THEN 1 ELSE 0)

\* Optimizer and scheduler steps taken so far, against the batches trained.
StepsPerBatch ==
    /\ optimizer = Len(train_writer)
    /\ IF config.use_BERT
       THEN scheduler # <<>> /\ scheduler[1].steps = Len(train_writer)
       ELSE scheduler = <<>>

\* C13: in every training batch the calls come in the order zero_grad,
\* forward, loss, backward, (clipping), optimizer step, scheduler step; the
\* optimizer is stepped once per batch for every backbone, the scheduler once
\* per batch after the optimizer for the transformer and never for CNN/LSTM.
C13_StepOrder ==
    (TrainMode /\ pc # "start") =>
        /\ StepsPerBatch
        /\ last_step.ops # <<>> => StepsInOrder

\* Two transformer batches with clipping, and two CNN batches, have run.
C13_Witness ==
    /\ Len(train_writer) = 2
    /\ optimizer = 2
    /\ \/ config.use_BERT /\ Len(last_step.ops) = 7 /\ scheduler[1].steps = 2
       \/ config.model_type = "cnn" /\ Len(last_step.ops) = 5


(* ---------------------------------------------------------------------- *)
\* C14: the steps the Train/batch_loss scalars are recorded under are
\* strictly increasing over the run: a later batch has a larger step than
\* every earlier one, so no two batches share a step.
C14_BatchStepIncreasing ==
    \A i, j \in 1..Len(train_writer) :
        i < j => train_writer[i] < train_writer[j]

\* Two epochs of two batches each were recorded under steps 2, 3, 4, 5.
C14_Witness ==
    /\ epoch = 2
    /\ num_batches = 2
    /\ train_writer = <<2, 3, 4, 5>>


(* ---------------------------------------------------------------------- *)
\* The validation pass of the current epoch has just ended: its batch losses
\* and predictions are still held, its scalars are the last ones written.
ValidationJustEnded == TrainMode /\ pc = "save"

\* m is the arithmetic mean of the batch losses ls, every batch counting
\* once: sum / count for finite losses, NaN or +infinity as floating point
\* gives it otherwise (0 / 0 for no batch at all).
UnweightedMean(m, ls) ==
    LET n == Len(ls)
        kinds == {ls[i].k : i \in 1..n}
    IN CASE n = 0 \/ "nan" \in kinds -> m.k = "nan"
         [] "inf" \in kinds -> m.k = "inf"
         [] OTHER ->
              /\ m.k = "fin"
              /\ \A i \in 1..n : ls[i].den = 1
              /\ m.num * n = SumSeq([i \in 1..n |-> ls[i].num]) * m.den

\* C15: the validation loss compared against the best-epoch record is the
\* unweighted mean of the per-batch losses, whatever the batch sizes, and the
\* accuracy counts the predictions of all batches, in split order, against
\* the labels of the whole split.
C15_MeanOfBatchLosses ==
    ValidationJustEnded =>
        LET rec == val_writer[Len(val_writer)]
            texts == data_module.val_texts
            pols == data_module.val_pols
        IN /\ rec.epoch = epoch
           /\ Len(total_loss) = LeastCover(Len(texts), config.batch_size_val)
           /\ UnweightedMean(rec.loss, total_loss)
           /\ rec.best = best_epoch
           /\ best_epoch = <<epoch, rec.loss>> \/ ~StrictlyLower(rec.loss, best_epoch[2])
           /\ predictions = [i \in 1..Len(texts) |-> Predict(model, texts[i])]
           /\ rec.acc.total = Len(pols)
           /\ rec.acc.correct =
                Cardinality({i \in 1..Len(pols) : Predict(model, texts[i]) = pols[i]})

\* Three validation examples in batches of two and one, with losses 0 and 1:
\* the mean is 1/2, not the example-weighted 1/3.
C15_Witness ==
    /\ ValidationJustEnded
    /\ Len(data_module.val_texts) = 3
    /\ config.batch_size_val = 2
    /\ total_loss = <<Fin(0, 1), Fin(1, 1)>>
    /\ val_writer[1].loss = Fin(1, 2)
    /\ val_writer[1].acc.total = 3


(* ---------------------------------------------------------------------- *)
\* C16: when the last epoch's checkpoint has been written and the best one
\* is about to be promoted, the epoch of the best-epoch record lies in
\* 1..num_epoch and its checkpoint directory exists, whatever losses the
\* validation passes gave; so, on a base path without an earlier e_best,
\* neither the rename nor the load of e_best raises.
C16_RecordNamesWrittenEpoch ==
    /\ (TrainMode /\ pc = "promote") =>
         /\ best_epoch[1] \in 1..config.num_epoch
         /\ best_epoch[1] \in DOMAIN epoch_dirs
         /\ epoch_dirs[best_epoch[1]] = save_log[best_epoch[1]]
    /\ (TrainMode /\ StartedWithoutEBest) => pc # "crashed"


(* ---------------------------------------------------------------------- *)
\* The last batch of the last epoch has been trained.
LastBatchDone ==
    \/ pc = "train" /\ epoch = config.num_epoch /\ batch = num_batches
    \/ TrainingOver
    \/ pc \in {"eval", "save"} /\ epoch = config.num_epoch

\* C17: with the transformer backbone the scheduler steps taken never exceed
\* the num_training_steps the warmup schedule was built with,
\* num_epoch * ceil(|train| / batch_size_train), and once a batch has been
\* trained they equal it exactly when the last batch of the last epoch is
\* done.
C17_SchedulerStepsMatchTotal ==
    (TrainMode /\ config.use_BERT /\ pc # "start") =>
        /\ scheduler[1].total =
             config.num_epoch *
               LeastCover(Len(data_module.train_texts), config.batch_size_train)
        /\ scheduler[1].steps <= scheduler[1].total
        /\ LastBatchDone => scheduler[1].steps = scheduler[1].total
        /\ (train_writer # <<>> /\ scheduler[1].steps = scheduler[1].total)
             => LastBatchDone

\* Two epochs of two batches: the fourth scheduler step of four was taken.
C17_Witness ==
    /\ TrainMode /\ config.use_BERT
    /\ pc = "train" /\ epoch = 2 /\ batch = 2
    /\ Len(data_module.train_texts) = 3
    /\ scheduler = <<[total |-> 4, steps |-> 4]>>


(* ---------------------------------------------------------------------- *)
TestMode == config.mode = "test"

\* Nothing of a training run has happened: no batch trained, no optimizer or
\* scheduler step, no validation pass, the best-epoch record, the checkpoint
\* directories and e_best as they were at the start.
NothingTrained ==
    /\ epoch = 0
    /\ train_writer = <<>>
    /\ last_step = NoStep
    /\ optimizer = 0
    /\ scheduler = <<>>
    /\ val_writer = <<>>
    /\ total_loss = <<>>
    /\ best_epoch = <<0, Inf>>
    /\ save_log = <<>>
    /\ epoch_dirs = <<>>
    /\ e_best = <<>>

\* The test passes completed so far.
TestPasses == Len(SelectSeq(logger, LAMBDA r : r.kind = "test_accuracy"))

\* C18: in test mode the model is loaded from load_model_path and exactly
\* one test pass runs, over the test split or, with test_on_val, over the
\* validation split; nothing of a training run happens.
C18_TestModeOnlyTests ==
    TestMode =>
        /\ pc \in {"start", "test_begin", "test", "done"}
        /\ NothingTrained
        /\ pc # "start" => model = LoadPathCheckpoint.model_state_dict
        /\ TestPasses = (IF pc = "done" THEN 1 ELSE 0)
        /\ Len(SentenceRecords) <= Len(NativeTestSplit)
        /\ \A i \in 1..Len(SentenceRecords) :
             SentenceRecords[i].sentence = NativeTestSplit[i]
        /\ pc = "done" =>
             /\ Len(SentenceRecords) = Len(NativeTestSplit)
             /\ Len(logger) = Len(NativeTestSplit) + 1

\* A finished test-mode run over a validation split of three examples that
\* stands in for a test split of another size.
C18_Witness ==
    /\ TestMode /\ pc = "done"
    /\ config.test_on_val
    /\ Len(data_module.val_texts) = 3
    /\ Len(SentenceRecords) = 3
    /\ SentenceRecords[3].sentence = 13
    /\ model = LoadPathCheckpoint.model_state_dict

====
